---- MODULE Spec2Model ----
(***************************************************************************)
(* diet-wise: the generate-diet-plan edge function (src/unnamed/part_000).  *)
(*                                                                         *)
(* The handler passed to serve() is modelled one step per stretch of code  *)
(* between two awaits or two throw sites.  Invocations of the handler share *)
(* no state (every binding is local to the closure), so one invocation at  *)
(* a time is modelled; the variable prev remembers the previous invocation *)
(* only so that properties relating two invocations can be stated.         *)
(*                                                                         *)
(* JavaScript numbers are modelled as exact rationals plus the non-finite  *)
(* values Infinity, -Infinity and NaN.  Weights are whole kilograms.       *)
(*                                                                         *)
(* The tables, policies, foreign keys and trigger of the migration and the *)
(* GoalSetup page (src/unnamed/part_001) that writes goals and diet plans  *)
(* are modelled further down, each with its own next-state relation.       *)
(***************************************************************************)
EXTENDS Integers, Sequences, FiniteSets, TLC

VARIABLES geminiApiKey, pc, method, request, targetCalories, prompt, fetchCalls,
          response, data, generatedText, dietPlan, result, prev

\* the database: auth.users and the four tables of the migration, the next
\* row id, and the last statement a client ran with what it returned
VARIABLES users, profiles, goals, diet_plans, user_history, nextId, lastOp

\* one GoalSetup page: the signed-in user, its React state and the position
\* of the handleSubmit call in flight; whether a call was turned away
\* at line 476 since the pending submission began, and how many calls have
\* passed the guards and not yet finished
VARIABLES goalType, user, loading, formData, step, goalData, invokeResponse,
          turnedAway, inFlight

\* one History page: its React state (lines 49-55) and the positions of the
\* fetchData and addWeightEntry calls in flight
VARIABLES History

handlerVars == <<geminiApiKey, pc, method, request, targetCalories, prompt, fetchCalls,
                 response, data, generatedText, dietPlan, result, prev>>

storeVars == <<users, profiles, goals, diet_plans, user_history, nextId, lastOp>>

pageVars == <<goalType, user, loading, formData, step, goalData, invokeResponse,
              turnedAway, inFlight>>

historyVars == <<History>>

vars == <<handlerVars, storeVars, pageVars, historyVars>>

(***************************************************************************)
(* JavaScript values.  Every value is a record with a tag t, so that any   *)
(* two values can be compared.                                             *)
(***************************************************************************)
Undefined == [t |-> "undefined"]
Null == [t |-> "null"]
Fin(n, d) == [t |-> "num", n |-> n, d |-> d]
Num(n) == Fin(n, 1)
PosInf == [t |-> "inf", s |-> 1]
NegInf == [t |-> "inf", s |-> -1]
NaN == [t |-> "nan"]
Str(s) == [t |-> "str", s |-> s]
Arr(e) == [t |-> "arr", e |-> e]
Obj(m) == [t |-> "obj", m |-> m]

Sign(n) == IF n > 0 THEN 1 ELSE IF n < 0 THEN -1 ELSE 0
AbsInt(n) == IF n < 0 THEN -n ELSE n

\* a - b on numbers (denominators are kept positive)
JsSub(a, b) ==
  IF a.t = "nan" \/ b.t = "nan" THEN NaN
  ELSE IF a.t = "inf" /\ b.t = "inf" THEN (IF a.s = b.s THEN NaN ELSE a)
  ELSE IF a.t = "inf" THEN a
  ELSE IF b.t = "inf" THEN [t |-> "inf", s |-> -b.s]
  ELSE Fin(a.n * b.d - b.n * a.d, a.d * b.d)

\* a + b
JsAdd(a, b) ==
  IF a.t = "nan" \/ b.t = "nan" THEN NaN
  ELSE IF a.t = "inf" /\ b.t = "inf" THEN (IF a.s = b.s THEN a ELSE NaN)
  ELSE IF a.t = "inf" THEN a
  ELSE IF b.t = "inf" THEN b
  ELSE Fin(a.n * b.d + b.n * a.d, a.d * b.d)

\* a * b
JsMul(a, b) ==
  IF a.t = "nan" \/ b.t = "nan" THEN NaN
  ELSE IF a.t = "inf" /\ b.t = "inf" THEN [t |-> "inf", s |-> a.s * b.s]
  ELSE IF a.t = "inf" THEN (IF b.n = 0 THEN NaN ELSE [t |-> "inf", s |-> a.s * Sign(b.n)])
  ELSE IF b.t = "inf" THEN (IF a.n = 0 THEN NaN ELSE [t |-> "inf", s |-> b.s * Sign(a.n)])
  ELSE Fin(a.n * b.n, a.d * b.d)

\* a / b: a zero divisor gives Infinity or NaN, never an exception
JsDiv(a, b) ==
  IF a.t = "nan" \/ b.t = "nan" THEN NaN
  ELSE IF a.t = "inf" /\ b.t = "inf" THEN NaN
  ELSE IF a.t = "inf" THEN [t |-> "inf", s |-> IF b.n < 0 THEN -a.s ELSE a.s]
  ELSE IF b.t = "inf" THEN Num(0)
  ELSE IF b.n = 0 THEN (IF a.n = 0 THEN NaN ELSE [t |-> "inf", s |-> Sign(a.n)])
  ELSE Fin(a.n * b.d * Sign(b.n), a.d * AbsInt(b.n))

\* a > b
JsGt(a, b) ==
  IF a.t = "nan" \/ b.t = "nan" THEN FALSE
  ELSE IF a.t = "inf" THEN a.s = 1 /\ ~(b.t = "inf" /\ b.s = 1)
  ELSE IF b.t = "inf" THEN b.s = -1
  ELSE a.n * b.d > b.n * a.d

MathAbs(a) ==
  IF a.t = "nan" THEN NaN
  ELSE IF a.t = "inf" THEN PosInf
  ELSE Fin(AbsInt(a.n), a.d)

\* Math.ceil in the place of Math.round
MathRound_ceil(a) ==
  IF a.t = "num" THEN Num(-((-a.n) \div a.d)) ELSE a

\* Math.round: the nearest integer, a tie going towards +Infinity
MathRound(a) ==
  IF a.t = "num" THEN Num((2 * a.n + a.d) \div (2 * a.d)) ELSE a

(***************************************************************************)
(* Lines 34-47: the calorie target of a request body.                      *)
(***************************************************************************)
weightDifference(req) == MathAbs(JsSub(Num(req.targetWeight), Num(req.currentWeight)))
totalWeeks(req) == Num(req.goalDurationWeeks)
weeklyWeightChange(req) == JsDiv(weightDifference(req), totalWeeks(req))
weeklyCalorieAdjustment(req) == JsMul(weeklyWeightChange(req), Num(3500))
dailyCalorieAdjustment(req) == JsDiv(weeklyCalorieAdjustment(req), Num(7))

\* the age test written as age >= 30
baseBMR_fromThirty(req) ==
  JsAdd(Num(1500), IF ~JsGt(Num(30), Num(req.age)) THEN Num(-100) ELSE Num(100))

baseBMR(req) == JsAdd(Num(1500), IF JsGt(Num(req.age), Num(30)) THEN Num(-100) ELSE Num(100))

\* the two branches exchanged
computeTargetCalories_swapped(req) ==
  IF req.goalType = "weight_loss"
  THEN MathRound(JsAdd(baseBMR(req), dailyCalorieAdjustment(req)))
  ELSE MathRound(JsSub(baseBMR(req), dailyCalorieAdjustment(req)))

\* a target that also depends on the diet preference
computeTargetCalories_byPreference(req) ==
  LET bmr == IF req.dietPreference = "vegan" THEN JsSub(baseBMR(req), Num(100)) ELSE baseBMR(req) IN
  IF req.goalType = "weight_loss"
  THEN MathRound(JsSub(bmr, dailyCalorieAdjustment(req)))
  ELSE MathRound(JsAdd(bmr, dailyCalorieAdjustment(req)))

computeTargetCalories(req) ==
  IF req.goalType = "weight_loss"
  THEN MathRound(JsSub(baseBMR(req), dailyCalorieAdjustment(req)))
  ELSE MathRound(JsAdd(baseBMR(req), dailyCalorieAdjustment(req)))


(***************************************************************************)
(* Text.  A string is a sequence of tokens: the braces, brackets and comma *)
(* of JSON, member keys ("calories:" stands for the quoted key and its     *)
(* colon), numerals, the string literal "'w'" and the prose token "w" (a   *)
(* run of characters that are neither braces nor JSON).                    *)
(***************************************************************************)
Keys == {"dailyCalories:", "breakfast:", "lunch:", "dinner:", "snacks:",
         "foods:", "calories:", "description:", "name:"}
Numerals == {"1100", "1650", "400", "150"}

\* the property name a key token denotes
KeyName(tok) ==
  CASE tok = "dailyCalories:" -> "dailyCalories"
    [] tok = "breakfast:" -> "breakfast"
    [] tok = "lunch:" -> "lunch"
    [] tok = "dinner:" -> "dinner"
    [] tok = "snacks:" -> "snacks"
    [] tok = "foods:" -> "foods"
    [] tok = "calories:" -> "calories"
    [] tok = "description:" -> "description"
    [] tok = "name:" -> "name"

\* the number a numeral denotes
NumeralValue(tok) ==
  CASE tok = "1100" -> 1100
    [] tok = "1650" -> 1650
    [] tok = "400" -> 400
    [] tok = "150" -> 150

(***************************************************************************)
(* Objects are sequences of <<name, value>> members in insertion order.    *)
(***************************************************************************)
HasMember(o, k) == \E i \in 1..Len(o.m) : o.m[i][1] = k
Member(o, k) == o.m[CHOOSE i \in 1..Len(o.m) : o.m[i][1] = k][2]

\* o[k] = v on a member list: a repeated name keeps its place, the last value wins
SetMember(m, k, v) ==
  IF \E i \in 1..Len(m) : m[i][1] = k
  THEN [i \in 1..Len(m) |-> IF m[i][1] = k THEN <<k, v>> ELSE m[i]]
  ELSE Append(m, <<k, v>>)

(***************************************************************************)
(* Line 135: JSON.parse, a recursive-descent parser over the tokens.       *)
(* Each operator returns [ok, v, next]: whether a value was read, the      *)
(* value, and the position after it.                                       *)
(***************************************************************************)
SyntaxError == [ok |-> FALSE, v |-> Undefined, next |-> 0]

RECURSIVE ParseValue(_, _), ParseMembers(_, _, _, _), ParseElements(_, _, _, _)

ParseValue(ts, i) ==
  IF i > Len(ts) THEN SyntaxError
  ELSE IF ts[i] \in Numerals THEN [ok |-> TRUE, v |-> Num(NumeralValue(ts[i])), next |-> i + 1]
  ELSE IF ts[i] = "'w'" THEN [ok |-> TRUE, v |-> Str(<<"w">>), next |-> i + 1]
  ELSE IF ts[i] = "{" THEN ParseMembers(ts, i + 1, <<>>, TRUE)
  ELSE IF ts[i] = "[" THEN ParseElements(ts, i + 1, <<>>, TRUE)
  ELSE SyntaxError

\* after "{" (first) or after a "," of an object
ParseMembers(ts, i, acc, first) ==
  IF i > Len(ts) THEN SyntaxError
  ELSE IF first /\ ts[i] = "}" THEN [ok |-> TRUE, v |-> Obj(acc), next |-> i + 1]
  ELSE IF ts[i] \notin Keys THEN SyntaxError
  ELSE LET val == ParseValue(ts, i + 1) IN
       IF ~val.ok \/ val.next > Len(ts) THEN SyntaxError
       ELSE LET acc2 == SetMember(acc, KeyName(ts[i]), val.v) IN
            IF ts[val.next] = "}" THEN [ok |-> TRUE, v |-> Obj(acc2), next |-> val.next + 1]
            ELSE IF ts[val.next] = "," THEN ParseMembers(ts, val.next + 1, acc2, FALSE)
            ELSE SyntaxError

\* after "[" (first) or after a "," of an array
ParseElements(ts, i, acc, first) ==
  IF i > Len(ts) THEN SyntaxError
  ELSE IF first /\ ts[i] = "]" THEN [ok |-> TRUE, v |-> Arr(acc), next |-> i + 1]
  ELSE LET val == ParseValue(ts, i) IN
       IF ~val.ok \/ val.next > Len(ts) THEN SyntaxError
       ELSE LET acc2 == Append(acc, val.v) IN
            IF ts[val.next] = "]" THEN [ok |-> TRUE, v |-> Arr(acc2), next |-> val.next + 1]
            ELSE IF ts[val.next] = "," THEN ParseElements(ts, val.next + 1, acc2, FALSE)
            ELSE SyntaxError

\* JSON.parse(ts): the whole text must be one value
JSONparse(ts) ==
  LET val == ParseValue(ts, 1) IN
  IF val.ok /\ val.next = Len(ts) + 1 THEN val ELSE SyntaxError

(***************************************************************************)
(* Line 133: generatedText.match(/\{[\s\S]*\}/).  The engine takes the     *)
(* leftmost position where a match starts and, [\s\S]* being greedy, the   *)
(* longest match from there.  The result is the matched text, or Null.     *)
(***************************************************************************)
MatchStarts(ts) == {i \in 1..Len(ts) : ts[i] = "{" /\ \E j \in (i + 1)..Len(ts) : ts[j] = "}"}

\* the match of /\{[\s\S]*?\}/: the shortest one from the leftmost start
jsonMatch_lazy(ts) ==
  IF MatchStarts(ts) = {} THEN Null
  ELSE LET i == CHOOSE a \in MatchStarts(ts) : \A b \in MatchStarts(ts) : a <= b
           ends == {j \in (i + 1)..Len(ts) : ts[j] = "}"}
           j == CHOOSE a \in ends : \A b \in ends : a <= b
       IN Str(SubSeq(ts, i, j))

jsonMatch(ts) ==
  IF MatchStarts(ts) = {} THEN Null
  ELSE LET i == CHOOSE a \in MatchStarts(ts) : \A b \in MatchStarts(ts) : a <= b
           ends == {j \in (i + 1)..Len(ts) : ts[j] = "}"}
           j == CHOOSE a \in ends : \A b \in ends : a >= b
       IN Str(SubSeq(ts, i, j))

(***************************************************************************)
(* Property access and truthiness, as lines 122 and 126 use them.          *)
(***************************************************************************)
\* reading a property of undefined or null throws a TypeError
Nullish(v) == v.t \in {"undefined", "null"}

\* v.k for a value that is not nullish
GetProp(v, k) == IF v.t = "obj" /\ HasMember(v, k) THEN Member(v, k) ELSE Undefined

\* v[0] for a value that is not nullish
GetFirst(v) ==
  IF v.t = "arr" THEN (IF Len(v.e) > 0 THEN v.e[1] ELSE Undefined)
  ELSE GetProp(v, "0")

\* !v is false
Truthy(v) ==
  CASE v.t \in {"undefined", "null", "nan"} -> FALSE
    [] v.t = "num" -> v.n # 0
    [] v.t = "str" -> v.s # <<>>
    [] OTHER -> TRUE

(***************************************************************************)
(* Lines 169 and 175: JSON.stringify, seen as the value the text denotes   *)
(* to whoever parses it: a non-finite number is written as null.           *)
(***************************************************************************)
RECURSIVE JSONstringify(_)
JSONstringify(v) ==
  CASE v.t \in {"inf", "nan", "undefined"} -> Null
    [] v.t = "obj" -> Obj([i \in 1..Len(v.m) |-> <<v.m[i][1], JSONstringify(v.m[i][2])>>])
    [] v.t = "arr" -> Arr([i \in 1..Len(v.e) |-> JSONstringify(v.e[i])])
    [] OTHER -> v

(***************************************************************************)
(* Lines 142-166: the fallback plan.                                       *)
(***************************************************************************)
Lit(text) == Str(<<text>>)

\* the lunch share written as 0.40
fallbackPlan_lunch40(target) ==
  Obj(<< <<"dailyCalories", target>>,
         <<"breakfast", Obj(<< <<"foods", Arr(<<Lit("2 slices whole grain toast"),
                                                Lit("1 medium banana"),
                                                Lit("1 tbsp peanut butter")>>)>>,
                               <<"calories", MathRound(JsMul(target, Fin(25, 100)))>>,
                               <<"description", Lit("Balanced breakfast with complex carbs and protein")>> >>)>>,
         <<"lunch", Obj(<< <<"foods", Arr(<<Lit("Mixed green salad"),
                                            Lit("Grilled chicken breast (100g)"),
                                            Lit("1 cup quinoa")>>)>>,
                           <<"calories", MathRound(JsMul(target, Fin(40, 100)))>>,
                           <<"description", Lit("Protein-rich lunch with fiber and nutrients")>> >>)>>,
         <<"dinner", Obj(<< <<"foods", Arr(<<Lit("Grilled fish (150g)"),
                                             Lit("Steamed vegetables"),
                                             Lit("1 cup brown rice")>>)>>,
                            <<"calories", MathRound(JsMul(target, Fin(30, 100)))>>,
                            <<"description", Lit("Light dinner with lean protein and vegetables")>> >>)>>,
         <<"snacks", Arr(<< Obj(<< <<"name", Lit("Greek yogurt with berries")>>,
                                   <<"foods", Arr(<<Lit("1 cup Greek yogurt"),
                                                    Lit("1/2 cup mixed berries")>>)>>,
                                   <<"calories", MathRound(JsMul(target, Fin(10, 100)))>> >>) >>)>> >>)

fallbackPlan(target) ==
  Obj(<< <<"dailyCalories", target>>,
         <<"breakfast", Obj(<< <<"foods", Arr(<<Lit("2 slices whole grain toast"),
                                                Lit("1 medium banana"),
                                                Lit("1 tbsp peanut butter")>>)>>,
                               <<"calories", MathRound(JsMul(target, Fin(25, 100)))>>,
                               <<"description", Lit("Balanced breakfast with complex carbs and protein")>> >>)>>,
         <<"lunch", Obj(<< <<"foods", Arr(<<Lit("Mixed green salad"),
                                            Lit("Grilled chicken breast (100g)"),
                                            Lit("1 cup quinoa")>>)>>,
                           <<"calories", MathRound(JsMul(target, Fin(35, 100)))>>,
                           <<"description", Lit("Protein-rich lunch with fiber and nutrients")>> >>)>>,
         <<"dinner", Obj(<< <<"foods", Arr(<<Lit("Grilled fish (150g)"),
                                             Lit("Steamed vegetables"),
                                             Lit("1 cup brown rice")>>)>>,
                            <<"calories", MathRound(JsMul(target, Fin(30, 100)))>>,
                            <<"description", Lit("Light dinner with lean protein and vegetables")>> >>)>>,
         <<"snacks", Arr(<< Obj(<< <<"name", Lit("Greek yogurt with berries")>>,
                                   <<"foods", Arr(<<Lit("1 cup Greek yogurt"),
                                                    Lit("1/2 cup mixed berries")>>)>>,
                                   <<"calories", MathRound(JsMul(target, Fin(10, 100)))>> >>) >>)>> >>)

(***************************************************************************)
(* Lines 130-167: the plan taken from the generated text.  Everything the  *)
(* inner try throws (a text without a match method, no match, a syntax     *)
(* error) is caught at line 139 and replaced by the fallback plan.         *)
(***************************************************************************)
parseError(text) ==
  IF text.t # "str" THEN "TypeError"
  ELSE IF jsonMatch(text.s) = Null THEN "No JSON found in response"
  ELSE IF ~JSONparse(jsonMatch(text.s).s).ok THEN "SyntaxError"
  ELSE "none"

extractDietPlan(text, target) ==
  IF parseError(text) = "none" THEN JSONparse(jsonMatch(text.s).s).v
  ELSE fallbackPlan(target)

(***************************************************************************)
(* Lines 49-94: the prompt, kept as the values substituted into it.        *)
(***************************************************************************)
buildPrompt(req, target) ==
  [age |-> req.age, goalType |-> req.goalType, currentWeight |-> req.currentWeight,
   targetWeight |-> req.targetWeight, goalDurationWeeks |-> req.goalDurationWeeks,
   dietPreference |-> req.dietPreference, targetCalories |-> target]

\* a call skipped when the previous invocation had the same request
issueFetch_cached(calls) ==
  IF prev # Undefined /\ prev.request = request THEN calls ELSE calls + 1

\* lines 96-113: one call to the provider; calls counts those of this invocation
issueFetch(calls) == calls + 1

(***************************************************************************)
(* Lines 173-181: the outer catch.                                         *)
(***************************************************************************)
errorResponse(message) ==
  [status |-> 500,
   body |-> JSONstringify(Obj(<< <<"error", Lit(message)>>,
                                 <<"details", Lit("Failed to generate diet plan")>> >>))]

(***************************************************************************)
(* Inputs.  A request body has the fields of DietPlanRequest (lines 9-16). *)
(***************************************************************************)
MaxAffixLen == 1

DietPlanRequest(g, cw, tw, a, p, w) ==
  [goalType |-> g, currentWeight |-> cw, targetWeight |-> tw, age |-> a,
   dietPreference |-> p, goalDurationWeeks |-> w]

\* the request bodies of the calorie specification
CalorieRequests ==
  {DietPlanRequest(g, cw, tw, a, p, w) :
     g \in {"weight_loss", "weight_gain"}, cw \in {60, 80}, tw \in {59, 70},
     a \in {30, 35}, p \in {"vegetarian", "vegan"}, w \in {0, 4, 8, 10, 20}}

\* the request bodies of the parsing specification
Requests ==
  {DietPlanRequest("weight_loss", 80, 70, 30, "vegan", 10),
   DietPlanRequest("weight_gain", 60, 70, 35, "non_vegetarian", 20),
   DietPlanRequest("weight_loss", 80, 70, 30, "vegetarian", 0)}

\* the text of a plan in the format the prompt asks for (lines 69-94)
MealText(cal) ==
  <<"{", "foods:", "[", "'w'", "]", ",", "calories:", cal, ",", "description:", "'w'", "}">>

SnackText(cal) ==
  <<"{", "name:", "'w'", ",", "foods:", "[", "'w'", "]", ",", "calories:", cal, "}">>

PlanText(dc) ==
  <<"{", "dailyCalories:", dc, ",", "breakfast:">> \o MealText("400")
    \o <<",", "lunch:">> \o MealText("400")
    \o <<",", "dinner:">> \o MealText("400")
    \o <<",", "snacks:", "[">> \o SnackText("150") \o <<"]", "}">>

\* what the generated text is built around: plans, other JSON, broken JSON, prose
Cores ==
  {PlanText("1100"), PlanText("1650"),
   <<"{", "}">>,
   <<"{", "dailyCalories:", "1100", "}">>,
   <<"{", "dailyCalories:", "'w'", ",", "breakfast:", "1100", "}">>,
   <<"{", "dailyCalories:", "1100", ",", "}">>,
   <<"{", "dailyCalories:", "1100">>,
   <<"[", "1100", "]">>,
   <<"w">>,
   <<>>}

AffixTokens == {"w", "{", "}"}
Affixes == UNION {[1..n -> AffixTokens] : n \in 0..MaxAffixLen}

\* the generated texts of the parsing specification
Texts == {p \o c \o s : p \in Affixes, c \in Cores, s \in Affixes}

\* the success envelope of the provider (line 126 reads it)
Envelope(text) ==
  Obj(<< <<"candidates",
           Arr(<< Obj(<< <<"content",
                           Obj(<< <<"parts", Arr(<< Obj(<< <<"text", text>> >>) >>)>> >>)>> >>) >>)>> >>)

\* bodies of another shape
OtherBodies ==
  {Null,
   Obj(<<>>),
   Obj(<< <<"error", Obj(<< <<"code", Num(400)>> >>)>> >>),
   Obj(<< <<"candidates", Arr(<<>>)>> >>),
   Obj(<< <<"candidates", Arr(<< Obj(<<>>) >>)>> >>),
   Obj(<< <<"candidates", Arr(<< Obj(<< <<"content", Obj(<<>>)>> >>) >>)>> >>),
   Obj(<< <<"candidates", Arr(<< Obj(<< <<"content", Obj(<< <<"parts", Arr(<<>>)>> >>)>> >>) >>)>> >>),
   Envelope(Undefined),
   Envelope(Null),
   Envelope(Num(1100))}

\* what fetch resolves to: a status that is ok or not, a body that is JSON or not
Replies(bodies) ==
  {[ok |-> o, json |-> FALSE, v |-> Undefined] : o \in BOOLEAN}
  \cup {[ok |-> o, json |-> TRUE, v |-> b] : o \in BOOLEAN, b \in bodies}

\* the bodies of the parsing specification
Bodies == OtherBodies \cup {Envelope(Str(t)) : t \in Texts}

\* the bodies of the calorie specification
CalorieBodies == {Obj(<<>>), Envelope(Str(PlanText("1100"))), Envelope(Str(<<"w">>))}

(***************************************************************************)
(* The database (src/supabase/migrations/20250723090802-...sql).           *)
(*                                                                         *)
(* A table is the set of its rows; a row is a record of its columns.  Ids  *)
(* stand for the UUIDs gen_random_uuid() draws and are never drawn twice:  *)
(* users get u1, u2 in turn, and goals, diet plans and history entries     *)
(* share a counter that stops at MaxRows.  Authenticated clients run       *)
(* statements under the row level security policies; the service role (the *)
(* table owner) bypasses them.  Foreign keys are checked for every role.   *)
(***************************************************************************)
MaxRows == 3

UserSeq == <<"u1", "u2">>

UserIds == {UserSeq[i] : i \in 1..Len(UserSeq)}

TableNames == {"profiles", "goals", "diet_plans", "user_history"}

Table(name) ==
  CASE name = "profiles" -> profiles
    [] name = "goals" -> goals
    [] name = "diet_plans" -> diet_plans
    [] name = "user_history" -> user_history

RowIds == 1..MaxRows

NoOp == [actor |-> "", op |-> "none", table |-> "", error |-> "", rows |-> {}]

InitStore ==
  /\ users = {}
  /\ profiles = {}
  /\ goals = {}
  /\ diet_plans = {}
  /\ user_history = {}
  /\ nextId = [user |-> 1, profile |-> 1, row |-> 1]
  /\ lastOp = NoOp

\* a policy that lets every authenticated user at every row
OwnRow_anyone(uid, row) == TRUE

\* lines 55-96: every policy has the predicate auth.uid() = user_id
OwnRow(uid, row) == uid = row.user_id

\* lines 15, 19: the CHECK constraints of goals (every column is NOT NULL)
GoalChecks(g) ==
  /\ g.goal_type \in {"weight_loss", "weight_gain"}
  /\ g.diet_preference \in {"vegetarian", "non_vegetarian", "vegan"}

\* line 21
StatusCheck(s) == s \in {"active", "completed", "paused"}

\* lines 31-35: daily_calories INTEGER NOT NULL, the meals JSONB NOT NULL
PlanChecks(p) ==
  /\ p.daily_calories.t = "num" /\ p.daily_calories.d = 1
  /\ ~Nullish(p.breakfast)
  /\ ~Nullish(p.lunch)
  /\ ~Nullish(p.dinner)

\* the goals a statement may try to insert
StoreGoals ==
  {[goal_type |-> gt, current_weight |-> 80, target_weight |-> 70, age |-> 30,
    diet_preference |-> "vegan", goal_duration_weeks |-> 10] :
     gt \in {"weight_loss", "maintain"}}

\* the plan columns a statement may try to insert
StorePlans ==
  {[daily_calories |-> dc, breakfast |-> Obj(<<>>), lunch |-> Obj(<<>>),
    dinner |-> Obj(<<>>), snacks |-> Arr(<<>>)] : dc \in {Num(1100), Null}}

\* lines 101, 107, 113, 117: REFERENCES auth.users(id) ON DELETE CASCADE
OnDeleteUser(table, uid) == {r \in table : r.user_id # uid}

\* plans and history are kept when their goal is deleted
OnDeleteGoal_noAction(table, gids) == table

\* lines 105, 111: REFERENCES public.goals(id) ON DELETE CASCADE
OnDeleteGoal(table, gids) == {r \in table : r.goal_id \notin gids}

\* registration provisions nothing
handle_new_user_absent(newUser, id) == {}

\* lines 140-156: the row the trigger inserts for a new auth.users row
handle_new_user(newUser, id) == {[id |-> id, user_id |-> newUser, full_name |-> "email"]}

\* line 4: user_id UUID NOT NULL UNIQUE
UniqueUserId(table, row) == \A p \in table : p.id # row.id => p.user_id # row.user_id

\* the last statement: who ran it, the error it was refused with, and the
\* rows it returned (for a cascading delete, the rows deleted with the goal)
Ran(uid, op, table, error, rows) ==
  lastOp' = [actor |-> uid, op |-> op, table |-> table, error |-> error, rows |-> rows]

Draw(counter) == nextId' = [nextId EXCEPT ![counter] = @ + 1]

\* lines 153-156: a row is added to auth.users and the trigger runs in the
\* same transaction; if the trigger's insert fails there is no new user
Register ==
  /\ nextId.user <= Len(UserSeq)
  /\ LET u == UserSeq[nextId.user]
         new == handle_new_user(u, nextId.profile)
     IN /\ \A r \in new : UniqueUserId(profiles, r)
        /\ users' = users \cup {u}
        /\ profiles' = profiles \cup new
        /\ nextId' = [nextId EXCEPT !.user = @ + 1, !.profile = @ + Cardinality(new)]
        /\ Ran("service_role", "insert", "auth.users", "", {})
  /\ UNCHANGED <<goals, diet_plans, user_history>>
  /\ UNCHANGED <<handlerVars, pageVars, historyVars>>

\* lines 98-117: a user is deleted from auth.users (by the service role)
DeleteUser(u) ==
  /\ u \in users
  /\ users' = users \ {u}
  /\ LET gone == {g.id : g \in {r \in goals : r.user_id = u}} IN
       /\ profiles' = OnDeleteUser(profiles, u)
       /\ goals' = OnDeleteUser(goals, u)
       /\ diet_plans' = OnDeleteGoal(OnDeleteUser(diet_plans, u), gone)
       /\ user_history' = OnDeleteGoal(OnDeleteUser(user_history, u), gone)
  /\ Ran("service_role", "delete", "auth.users", "", {})
  /\ UNCHANGED nextId
  /\ UNCHANGED <<handlerVars, pageVars, historyVars>>

\* lines 103-113: a goal is deleted (by the service role: no policy lets a
\* client delete)
DeleteGoal(gid) ==
  /\ \E g \in goals : g.id = gid
  /\ goals' = {g \in goals : g.id # gid}
  /\ diet_plans' = OnDeleteGoal(diet_plans, {gid})
  /\ user_history' = OnDeleteGoal(user_history, {gid})
  /\ Ran("service_role", "delete", "goals", "",
         (diet_plans \ diet_plans') \cup (user_history \ user_history'))
  /\ UNCHANGED <<users, profiles, nextId>>
  /\ UNCHANGED <<handlerVars, pageVars, historyVars>>

\* lines 57, 70, 83, 92: SELECT returns the rows the USING clause admits
SelectFrom(uid, table) ==
  /\ uid \in users
  /\ Ran(uid, "select", table, "", {r \in Table(table) : OwnRow(uid, r)})
  /\ UNCHANGED <<users, profiles, goals, diet_plans, user_history, nextId>>
  /\ UNCHANGED <<handlerVars, pageVars, historyVars>>

\* the error an INSERT or UPDATE is refused with: the policy is applied to
\* the new row first, then the column constraints, then the unique index,
\* then the foreign keys
Refusal(policy, checks, unique, references) ==
  IF ~policy THEN "new row violates row-level security policy"
  ELSE IF ~checks THEN "violates check or not-null constraint"
  ELSE IF ~unique THEN "duplicate key value violates unique constraint"
  ELSE IF ~references THEN "violates foreign key constraint"
  ELSE ""

\* lines 59-61, 4, 117: INSERT INTO profiles
InsertProfiles(uid, owner) ==
  /\ uid \in users
  /\ LET row == [id |-> nextId.profile, user_id |-> owner, full_name |-> "name"]
         error == Refusal(OwnRow(uid, row), TRUE, UniqueUserId(profiles, row), owner \in users)
     IN /\ profiles' = IF error = "" THEN profiles \cup {row} ELSE profiles
        /\ IF error = "" THEN Draw("profile") ELSE UNCHANGED nextId
        /\ Ran(uid, "insert", "profiles", error, {})
  /\ UNCHANGED <<users, goals, diet_plans, user_history>>
  /\ UNCHANGED <<handlerVars, pageVars, historyVars>>

\* lines 72-74, 12-24, 101: INSERT INTO goals
InsertGoals(uid, owner, g) ==
  /\ uid \in users
  /\ nextId.row <= MaxRows
  /\ LET row == [id |-> nextId.row, user_id |-> owner, status |-> "active", goal |-> g]
         error == Refusal(OwnRow(uid, row), GoalChecks(g), TRUE, owner \in users)
     IN /\ goals' = IF error = "" THEN goals \cup {row} ELSE goals
        /\ IF error = "" THEN Draw("row") ELSE UNCHANGED nextId
        /\ Ran(uid, "insert", "goals", error, {})
  /\ UNCHANGED <<users, profiles, diet_plans, user_history>>
  /\ UNCHANGED <<handlerVars, pageVars, historyVars>>

\* lines 85-87, 27-37, 103-107: INSERT INTO diet_plans
InsertDietPlans(uid, owner, gid, p) ==
  /\ uid \in users
  /\ nextId.row <= MaxRows
  /\ LET row == [id |-> nextId.row, goal_id |-> gid, user_id |-> owner, plan |-> p]
         error == Refusal(OwnRow(uid, row), PlanChecks(p), TRUE,
                          owner \in users /\ \E g \in goals : g.id = gid)
     IN /\ diet_plans' = IF error = "" THEN diet_plans \cup {row} ELSE diet_plans
        /\ IF error = "" THEN Draw("row") ELSE UNCHANGED nextId
        /\ Ran(uid, "insert", "diet_plans", error, {})
  /\ UNCHANGED <<users, profiles, goals, user_history>>
  /\ UNCHANGED <<handlerVars, pageVars, historyVars>>

\* lines 94-96, 40-46, 109-113: INSERT INTO user_history
InsertUserHistory(uid, owner, gid, w) ==
  /\ uid \in users
  /\ nextId.row <= MaxRows
  /\ LET row == [id |-> nextId.row, user_id |-> owner, goal_id |-> gid,
                 current_weight |-> w]
         error == Refusal(OwnRow(uid, row), TRUE, TRUE,
                          owner \in users /\ \E g \in goals : g.id = gid)
     IN /\ user_history' = IF error = "" THEN user_history \cup {row} ELSE user_history
        /\ IF error = "" THEN Draw("row") ELSE UNCHANGED nextId
        /\ Ran(uid, "insert", "user_history", error, {})
  /\ UNCHANGED <<users, profiles, goals, diet_plans>>
  /\ UNCHANGED <<handlerVars, pageVars, historyVars>>

\* lines 76-78: UPDATE goals SET user_id, status WHERE id = gid.  The USING
\* clause selects the rows and, there being no WITH CHECK, is also applied to
\* the new rows
UpdateGoals(uid, gid, owner, status) ==
  /\ uid \in users
  /\ LET old == {r \in goals : r.id = gid /\ OwnRow(uid, r)}
         new == {[r EXCEPT !.user_id = owner, !.status = status] : r \in old}
         error == IF old = {} THEN ""
                  ELSE Refusal(\A r \in new : OwnRow(uid, r), StatusCheck(status),
                               TRUE, owner \in users)
     IN /\ goals' = IF error = "" THEN (goals \ old) \cup new ELSE goals
        /\ Ran(uid, "update", "goals", error, {})
  /\ UNCHANGED <<users, profiles, diet_plans, user_history, nextId>>
  /\ UNCHANGED <<handlerVars, pageVars, historyVars>>

\* lines 63-65: UPDATE profiles SET user_id, full_name WHERE id = pid
UpdateProfiles(uid, pid, owner, name) ==
  /\ uid \in users
  /\ LET old == {r \in profiles : r.id = pid /\ OwnRow(uid, r)}
         new == {[r EXCEPT !.user_id = owner, !.full_name = name] : r \in old}
         error == IF old = {} THEN ""
                  ELSE Refusal(\A r \in new : OwnRow(uid, r), TRUE,
                               \A r \in new : UniqueUserId(profiles, r), owner \in users)
     IN /\ profiles' = IF error = "" THEN (profiles \ old) \cup new ELSE profiles
        /\ Ran(uid, "update", "profiles", error, {})
  /\ UNCHANGED <<users, goals, diet_plans, user_history, nextId>>
  /\ UNCHANGED <<handlerVars, pageVars, historyVars>>

\* lines 48-96: row level security is enabled and no policy is defined for
\* UPDATE on diet_plans and user_history, nor for DELETE on any table: the
\* statement finds no row
Unpermitted(uid, op, table) ==
  /\ uid \in users
  /\ \/ op = "delete"
     \/ op = "update" /\ table \in {"diet_plans", "user_history"}
  /\ Ran(uid, op, table, "", {})
  /\ UNCHANGED <<users, profiles, goals, diet_plans, user_history, nextId>>
  /\ UNCHANGED <<handlerVars, pageVars, historyVars>>

(***************************************************************************)
(* The GoalSetup page (src/unnamed/part_001, lines 457-686).               *)
(* handleSubmit is modelled one step per stretch of code between two       *)
(* awaits.  It reads formData, goalType and user from the render it was    *)
(* created in, so the form is edited only between submissions.  MaxGoals   *)
(* bounds the goals the page saves.                                        *)
(***************************************************************************)
MaxGoals == 2

\* lines 463-469
EmptyForm ==
  [currentWeight |-> "", targetWeight |-> "", age |-> "", dietPreference |-> "",
   goalDurationWeeks |-> ""]

\* what the user may have typed and selected (lines 587-662)
Forms ==
  {EmptyForm,
   [currentWeight |-> "80", targetWeight |-> "70", age |-> "30",
    dietPreference |-> "vegan", goalDurationWeeks |-> "12"],
   [currentWeight |-> "80", targetWeight |-> "", age |-> "30",
    dietPreference |-> "vegan", goalDurationWeeks |-> "12"],
   [currentWeight |-> "-5", targetWeight |-> "70", age |-> "30",
    dietPreference |-> "vegan", goalDurationWeeks |-> "12"]}

\* the route parameter of /goal-setup/:goalType (line 458)
GoalTypes == {"weight_loss", "weight_gain", "maintain"}

\* the number a numeral of the form denotes
Numeric(s) ==
  CASE s = "80" -> 80 [] s = "70" -> 70 [] s = "-5" -> -5
    [] s = "30" -> 30 [] s = "12" -> 12

\* lines 496, 497, 513, 514
parseFloat(s) == Numeric(s)

\* lines 498, 500, 515, 517
parseInt(s) == Numeric(s)

InitPage ==
  /\ goalType = ""
  /\ user = ""
  /\ loading = FALSE
  /\ formData = EmptyForm
  /\ step = "idle"
  /\ goalData = Null
  /\ invokeResponse = Null
  /\ turnedAway = FALSE
  /\ inFlight = 0

\* lines 457-469: the page is opened by a signed-in user
Mount(u, gt) ==
  /\ step = "idle"
  /\ u \in users
  /\ user' = u
  /\ goalType' = gt
  /\ formData' = EmptyForm
  /\ UNCHANGED <<loading, step, goalData, invokeResponse, turnedAway, inFlight>>
  /\ UNCHANGED <<handlerVars, storeVars, historyVars>>

\* lines 471-473, once per field the user changes
handleInputChange(form) ==
  /\ step = "idle"
  /\ goalType # ""
  /\ formData' = form
  /\ UNCHANGED <<goalType, user, loading, step, goalData, invokeResponse, turnedAway, inFlight>>
  /\ UNCHANGED <<handlerVars, storeVars, historyVars>>

\* lines 478: a field of the form is empty
EmptyField ==
  \/ formData.currentWeight = "" \/ formData.targetWeight = "" \/ formData.age = ""
  \/ formData.dietPreference = "" \/ formData.goalDurationWeeks = ""

\* a call during a pending submission is not turned away
handleSubmit_unguarded ==
  /\ goalType # ""
  /\ IF user = ""
     THEN turnedAway' = TRUE /\ UNCHANGED <<loading, step, inFlight>>
     ELSE /\ ~EmptyField
          /\ Cardinality(goals) < MaxGoals
          /\ turnedAway' = FALSE
          /\ loading' = TRUE
          /\ step' = "saveGoal"
          /\ inFlight' = inFlight + 1
  /\ UNCHANGED <<goalType, user, formData, goalData, invokeResponse>>
  /\ UNCHANGED <<handlerVars, storeVars, historyVars>>

\* lines 475-487: handleSubmit is called (the button is clicked, or the
\* function is called while the button is disabled); it returns at once
\* without a user or while loading, and otherwise sets loading and goes on to
\* save the goal (with an empty field it only shows a toast, which is no
\* part of the state)
handleSubmit ==
  /\ goalType # ""
  /\ IF user = "" \/ loading
     THEN turnedAway' = TRUE /\ UNCHANGED <<loading, step, inFlight>>
     ELSE /\ ~EmptyField
          /\ Cardinality(goals) < MaxGoals
          /\ turnedAway' = FALSE
          /\ loading' = TRUE
          /\ step' = "saveGoal"
          /\ inFlight' = inFlight + 1
  /\ UNCHANGED <<goalType, user, formData, goalData, invokeResponse>>
  /\ UNCHANGED <<handlerVars, storeVars, historyVars>>

\* lines 493-501: the row handleSubmit inserts into goals
goalValues ==
  [goal_type |-> goalType,
   current_weight |-> parseFloat(formData.currentWeight),
   target_weight |-> parseFloat(formData.targetWeight),
   age |-> parseInt(formData.age),
   diet_preference |-> formData.dietPreference,
   goal_duration_weeks |-> parseInt(formData.goalDurationWeeks)]

\* the goal is not inserted anew when the user already has one
SaveGoal_reuse(reached) ==
  /\ step = "saveGoal"
  /\ LET own == {g \in goals : g.user_id = user}
         row == IF own = {}
                THEN [id |-> nextId.row, user_id |-> user, status |-> "active", goal |-> goalValues]
                ELSE CHOOSE g \in own : TRUE
         error == IF ~reached THEN "Failed to fetch"
                  ELSE Refusal(OwnRow(user, row), GoalChecks(goalValues), TRUE, user \in users)
     IN /\ goals' = IF error = "" THEN goals \cup {row} ELSE goals
        /\ IF error = "" /\ own = {} THEN Draw("row") ELSE UNCHANGED nextId
        /\ IF reached THEN Ran(user, "insert", "goals", error, {}) ELSE UNCHANGED lastOp
        /\ goalData' = IF error = "" THEN row ELSE Null
        /\ step' = IF error = "" THEN "invoke" ELSE "catch"
  /\ UNCHANGED <<users, profiles, diet_plans, user_history>>
  /\ UNCHANGED <<goalType, user, loading, formData, invokeResponse, turnedAway, inFlight>>
  /\ UNCHANGED <<handlerVars, historyVars>>

\* lines 491-507: the goal is inserted under the policies of goals; the
\* request may not reach the database at all
SaveGoal(reached) ==
  /\ step = "saveGoal"
  /\ LET row == [id |-> nextId.row, user_id |-> user, status |-> "active", goal |-> goalValues]
         error == IF ~reached THEN "Failed to fetch"
                  ELSE Refusal(OwnRow(user, row), GoalChecks(goalValues), TRUE, user \in users)
     IN /\ goals' = IF error = "" THEN goals \cup {row} ELSE goals
        /\ IF error = "" THEN Draw("row") ELSE UNCHANGED nextId
        /\ IF reached THEN Ran(user, "insert", "goals", error, {}) ELSE UNCHANGED lastOp
        /\ goalData' = IF error = "" THEN row ELSE Null
        /\ step' = IF error = "" THEN "invoke" ELSE "catch"
  /\ UNCHANGED <<users, profiles, diet_plans, user_history>>
  /\ UNCHANGED <<goalType, user, loading, formData, invokeResponse, turnedAway, inFlight>>
  /\ UNCHANGED <<handlerVars, historyVars>>

\* lines 511-518: the body sent to generate-diet-plan
invokeBody ==
  DietPlanRequest(goalType, parseFloat(formData.currentWeight),
                  parseFloat(formData.targetWeight), parseInt(formData.age),
                  formData.dietPreference, parseInt(formData.goalDurationWeeks))

\* what functions.invoke resolves to: an error (the function answered 500 or
\* was not reached), or the body of a 200 answer, which is a plan for the
\* target of the request or any other object the provider wrote
InvokeResponses(body) ==
  {[body |-> body, error |-> TRUE, data |-> Null]}
    \cup {[body |-> body, error |-> FALSE, data |-> d] :
            d \in {JSONstringify(fallbackPlan(computeTargetCalories(body))), Obj(<<>>)}}

\* lines 510-525
InvokeGenerate ==
  /\ step = "invoke"
  /\ \E r \in InvokeResponses(invokeBody) :
       /\ invokeResponse' = r
       /\ step' = IF r.error THEN "catch" ELSE "savePlan"
  /\ UNCHANGED <<goalType, user, loading, formData, goalData, turnedAway, inFlight>>
  /\ UNCHANGED <<handlerVars, storeVars, historyVars>>

\* lines 531-537: the columns handleSubmit inserts into diet_plans
planValues(plan) ==
  [daily_calories |-> GetProp(plan, "dailyCalories"),
   breakfast |-> GetProp(plan, "breakfast"),
   lunch |-> GetProp(plan, "lunch"),
   dinner |-> GetProp(plan, "dinner"),
   snacks |-> IF Truthy(GetProp(plan, "snacks")) THEN GetProp(plan, "snacks") ELSE Arr(<<>>)]

\* lines 528-549: the plan is inserted under the policies of diet_plans
SaveDietPlan(reached) ==
  /\ step = "savePlan"
  /\ LET p == planValues(invokeResponse.data)
         row == [id |-> nextId.row, goal_id |-> goalData.id, user_id |-> user, plan |-> p]
         error == IF ~reached THEN "Failed to fetch"
                  ELSE Refusal(OwnRow(user, row), PlanChecks(p), TRUE,
                               user \in users /\ \E g \in goals : g.id = goalData.id)
     IN /\ diet_plans' = IF error = "" THEN diet_plans \cup {row} ELSE diet_plans
        /\ IF error = "" THEN Draw("row") ELSE UNCHANGED nextId
        /\ IF reached THEN Ran(user, "insert", "diet_plans", error, {}) ELSE UNCHANGED lastOp
        /\ step' = IF error = "" THEN "navigate" ELSE "catch"
  /\ UNCHANGED <<users, profiles, goals, user_history>>
  /\ UNCHANGED <<goalType, user, loading, formData, goalData, invokeResponse, turnedAway, inFlight>>
  /\ UNCHANGED <<handlerVars, historyVars>>

\* lines 544-559: after navigate() or the catch block, finally clears loading;
\* having navigated to the dashboard the page is left
Finally ==
  /\ step \in {"navigate", "catch"}
  /\ loading' = FALSE
  /\ step' = "idle"
  /\ goalType' = IF step = "navigate" THEN "" ELSE goalType
  /\ formData' = IF step = "navigate" THEN EmptyForm ELSE formData
  /\ goalData' = Null
  /\ invokeResponse' = Null
  /\ inFlight' = inFlight - 1
  /\ turnedAway' = FALSE
  /\ UNCHANGED user
  /\ UNCHANGED <<handlerVars, storeVars, historyVars>>

(***************************************************************************)
(* The History page (src/unnamed/part_001, lines 45-137 and 156-169).      *)
(* created_at and recorded_at default to now(), so rows are ordered by     *)
(* time as they are by id.  The page renders its goals and its button only *)
(* while loading is false.                                                 *)
(***************************************************************************)
\* the rows of a set, latest first (.order(..., { ascending: false }))
RECURSIVE LatestFirst(_)
LatestFirst(rows) ==
  IF rows = {} THEN <<>>
  ELSE LET r == CHOOSE x \in rows : \A y \in rows : x.id >= y.id
       IN <<r>> \o LatestFirst(rows \ {r})

\* Math.min
MathMin(a, b) ==
  IF a.t = "nan" \/ b.t = "nan" THEN NaN
  ELSE IF JsGt(a, b) THEN b ELSE a

\* the goals a user may have
HistoryGoals ==
  {[goal_type |-> "weight_loss", current_weight |-> 80, target_weight |-> tw, age |-> 30,
    diet_preference |-> "vegan", goal_duration_weeks |-> 12] : tw \in {70, 80}}

\* what the user may type into the weight input (line 323)
WeightInputs == {"", "70", "80"}

\* the History page is not open
NoHistory ==
  [user |-> "", goals |-> <<>>, weightHistory |-> <<>>, currentWeight |-> "",
   loading |-> TRUE, adding |-> FALSE, selectedGoal |-> Null,
   fetch |-> "idle", add |-> "idle", addedFor |-> 0]

InitHistory == History = NoHistory

\* lines 159-161: .filter(entry => entry.goal_id === selectedGoal.id)
GoalEntries(weightHistory, goal) ==
  {i \in 1..Len(weightHistory) : weightHistory[i].goal_id = goal.id}

\* lines 156-169
calculateProgress(selectedGoal, weightHistory) ==
  IF selectedGoal = Null THEN Num(0)
  ELSE LET mine == {weightHistory[i] : i \in GoalEntries(weightHistory, selectedGoal)}
       IN IF mine = {} THEN Num(0)
          ELSE LET latestWeight == LatestFirst(mine)[1]
                   totalWeightToChange ==
                     MathAbs(JsSub(Num(selectedGoal.goal.target_weight),
                                   Num(selectedGoal.goal.current_weight)))
                   weightChanged ==
                     MathAbs(JsSub(Num(latestWeight.current_weight),
                                   Num(selectedGoal.goal.current_weight)))
               IN MathMin(Num(100), JsMul(JsDiv(weightChanged, totalWeightToChange), Num(100)))

\* lines 57-63, 65-75: the page is opened by a signed-in user; the effect
\* calls fetchData, which asks for the goals
MountHistory(u) ==
  /\ History.user = ""
  /\ u \in users
  /\ History' = [NoHistory EXCEPT !.user = u, !.fetch = "goals"]
  /\ UNCHANGED <<handlerVars, storeVars, pageVars>>

\* lines 69-82: the goals arrive, latest first, and the first is selected
FetchGoals(reached) ==
  /\ History.fetch = "goals"
  /\ IF reached
     THEN LET goalsData == LatestFirst({g \in goals : OwnRow(History.user, g)
                                                       /\ g.user_id = History.user})
          IN /\ History' = [History EXCEPT
                              !.goals = goalsData,
                              !.selectedGoal = IF Len(goalsData) > 0 THEN goalsData[1] ELSE @,
                              !.fetch = "history"]
             /\ Ran(History.user, "select", "goals", "", {goalsData[i] : i \in 1..Len(goalsData)})
     ELSE /\ History' = [History EXCEPT !.fetch = "idle", !.loading = FALSE]
          /\ UNCHANGED lastOp
  /\ UNCHANGED <<users, profiles, goals, diet_plans, user_history, nextId>>
  /\ UNCHANGED <<handlerVars, pageVars>>

\* lines 84-102: the history arrives, latest first; finally clears loading
FetchHistory(reached) ==
  /\ History.fetch = "history"
  /\ IF reached
     THEN LET historyData == LatestFirst({h \in user_history : OwnRow(History.user, h)
                                                                /\ h.user_id = History.user})
          IN /\ History' = [History EXCEPT !.weightHistory = historyData,
                                           !.fetch = "idle", !.loading = FALSE]
             /\ Ran(History.user, "select", "user_history", "",
                    {historyData[i] : i \in 1..Len(historyData)})
     ELSE /\ History' = [History EXCEPT !.fetch = "idle", !.loading = FALSE]
          /\ UNCHANGED lastOp
  /\ UNCHANGED <<users, profiles, goals, diet_plans, user_history, nextId>>
  /\ UNCHANGED <<handlerVars, pageVars>>

\* line 240: the user clicks a goal of the list
setSelectedGoal(i) ==
  /\ History.user # ""
  /\ ~History.loading
  /\ History.add = "idle"
  /\ i \in 1..Len(History.goals)
  /\ History' = [History EXCEPT !.selectedGoal = History.goals[i], !.addedFor = 0]
  /\ UNCHANGED <<handlerVars, storeVars, pageVars>>

\* line 323: the user types a weight
setCurrentWeight(w) ==
  /\ History.user # ""
  /\ ~History.loading
  /\ History.add = "idle"
  /\ History' = [History EXCEPT !.currentWeight = w]
  /\ UNCHANGED <<handlerVars, storeVars, pageVars>>

\* lines 105-109: addWeightEntry passes its guard and sets adding
addWeightEntry ==
  /\ History.user # ""
  /\ ~History.loading
  /\ ~History.adding
  /\ ~(History.currentWeight = "" \/ History.selectedGoal = Null)
  /\ History' = [History EXCEPT !.adding = TRUE, !.add = "insert"]
  /\ UNCHANGED <<handlerVars, storeVars, pageVars>>

\* lines 110-136: the entry is inserted under the policies of user_history;
\* then the input is cleared and fetchData is called (it sets loading and
\* asks for the goals), and finally clears adding.  addedFor remembers the
\* goal the entry was added for
InsertWeightEntry(reached) ==
  /\ History.add = "insert"
  /\ LET row == [id |-> nextId.row, user_id |-> History.user,
                 goal_id |-> History.selectedGoal.id,
                 current_weight |-> parseFloat(History.currentWeight)]
         error == IF ~reached THEN "Failed to fetch"
                  ELSE Refusal(OwnRow(History.user, row), TRUE, TRUE,
                               History.user \in users
                                 /\ \E g \in goals : g.id = History.selectedGoal.id)
     IN /\ error = "" => nextId.row <= MaxRows
        /\ user_history' = IF error = "" THEN user_history \cup {row} ELSE user_history
        /\ IF error = "" THEN Draw("row") ELSE UNCHANGED nextId
        /\ IF reached THEN Ran(History.user, "insert", "user_history", error, {})
           ELSE UNCHANGED lastOp
        /\ History' = IF error = ""
                      THEN [History EXCEPT !.currentWeight = "", !.loading = TRUE,
                                           !.fetch = "goals", !.adding = FALSE,
                                           !.add = "idle",
                                           !.addedFor = History.selectedGoal.id]
                      ELSE [History EXCEPT !.adding = FALSE, !.add = "idle"]
  /\ UNCHANGED <<users, profiles, goals, diet_plans>>
  /\ UNCHANGED <<handlerVars, pageVars>>

(***************************************************************************)
(* The handler (lines 18-183).                                             *)
(***************************************************************************)
Init ==
  /\ geminiApiKey \in BOOLEAN
  /\ pc = "idle"
  /\ method = ""
  /\ request = Undefined
  /\ targetCalories = Undefined
  /\ prompt = Undefined
  /\ fetchCalls = 0
  /\ response = Undefined
  /\ data = Undefined
  /\ generatedText = Undefined
  /\ dietPlan = Undefined
  /\ result = Undefined
  /\ prev = Undefined
  /\ InitStore
  /\ InitPage
  /\ InitHistory

\* lines 173-181: an exception thrown anywhere in the outer try
Catch(message) ==
  /\ result' = errorResponse(message)
  /\ pc' = "done"

\* lines 20-22: a preflight request is answered at once
Preflight ==
  /\ pc = "idle"
  /\ method' = "OPTIONS"
  /\ result' = [status |-> 200, body |-> Null]
  /\ pc' = "done"
  /\ UNCHANGED <<geminiApiKey, request, targetCalories, prompt, fetchCalls,
                 response, data, generatedText, dietPlan, prev>>
  /\ UNCHANGED <<storeVars, pageVars, historyVars>>

\* line 18: any other request enters the try block
Enter ==
  /\ pc = "idle"
  /\ method' = "POST"
  /\ pc' = "checkKey"
  /\ UNCHANGED <<geminiApiKey, request, targetCalories, prompt, fetchCalls,
                 response, data, generatedText, dietPlan, result, prev>>
  /\ UNCHANGED <<storeVars, pageVars, historyVars>>

\* the credential is not checked before the body is read
CheckKey_unchecked ==
  /\ pc = "checkKey"
  /\ pc' = "readBody"
  /\ UNCHANGED <<geminiApiKey, method, request, targetCalories, prompt, fetchCalls,
                 response, data, generatedText, dietPlan, result, prev>>
  /\ UNCHANGED <<storeVars, pageVars, historyVars>>

\* lines 25-28
CheckKey ==
  /\ pc = "checkKey"
  /\ IF ~geminiApiKey
     THEN Catch("GEMINI_API_KEY not found in environment variables")
     ELSE pc' = "readBody" /\ UNCHANGED result
  /\ UNCHANGED <<geminiApiKey, method, request, targetCalories, prompt, fetchCalls,
                 response, data, generatedText, dietPlan, prev>>
  /\ UNCHANGED <<storeVars, pageVars, historyVars>>

\* line 30: await req.json() rejects, or yields the body
ReadBody(bodies) ==
  /\ pc = "readBody"
  /\ \/ Catch("Unexpected end of JSON input") /\ UNCHANGED request
     \/ \E r \in bodies : request' = r /\ pc' = "compute" /\ UNCHANGED result
  /\ UNCHANGED <<geminiApiKey, method, targetCalories, prompt, fetchCalls,
                 response, data, generatedText, dietPlan, prev>>
  /\ UNCHANGED <<storeVars, pageVars, historyVars>>

\* lines 35-47
ComputeTarget ==
  /\ pc = "compute"
  /\ targetCalories' = computeTargetCalories(request)
  /\ pc' = "fetch"
  /\ UNCHANGED <<geminiApiKey, method, request, prompt, fetchCalls,
                 response, data, generatedText, dietPlan, result, prev>>
  /\ UNCHANGED <<storeVars, pageVars, historyVars>>

\* lines 49-113: the prompt is built and the call to the provider is issued
Fetch ==
  /\ pc = "fetch"
  /\ prompt' = buildPrompt(request, targetCalories)
  /\ fetchCalls' = issueFetch(fetchCalls)
  /\ pc' = "awaitFetch"
  /\ UNCHANGED <<geminiApiKey, method, request, targetCalories,
                 response, data, generatedText, dietPlan, result, prev>>
  /\ UNCHANGED <<storeVars, pageVars, historyVars>>

\* line 96: await fetch(...) rejects (no connection), or resolves to a response
FetchReturns(replies) ==
  /\ pc = "awaitFetch"
  /\ \/ Catch("error sending request") /\ UNCHANGED response
     \/ \E r \in replies : response' = r /\ pc' = "checkOk" /\ UNCHANGED result
  /\ UNCHANGED <<geminiApiKey, method, request, targetCalories, prompt, fetchCalls,
                 data, generatedText, dietPlan, prev>>
  /\ UNCHANGED <<storeVars, pageVars, historyVars>>

\* the status is not checked before the body is read
CheckOk_ignoreStatus ==
  /\ pc = "checkOk"
  /\ IF ~response.json THEN Catch("Unexpected token") /\ UNCHANGED data
     ELSE data' = response.v /\ pc' = "checkEnvelope" /\ UNCHANGED result
  /\ UNCHANGED <<geminiApiKey, method, request, targetCalories, prompt, fetchCalls,
                 response, generatedText, dietPlan, prev>>
  /\ UNCHANGED <<storeVars, pageVars, historyVars>>

\* lines 115-119: the status is checked, then await response.json()
CheckOk ==
  /\ pc = "checkOk"
  /\ IF ~response.ok THEN Catch("Gemini API error") /\ UNCHANGED data
     ELSE IF ~response.json THEN Catch("Unexpected token") /\ UNCHANGED data
     ELSE data' = response.v /\ pc' = "checkEnvelope" /\ UNCHANGED result
  /\ UNCHANGED <<geminiApiKey, method, request, targetCalories, prompt, fetchCalls,
                 response, generatedText, dietPlan, prev>>
  /\ UNCHANGED <<storeVars, pageVars, historyVars>>

\* lines 122-126
CheckEnvelope ==
  /\ pc = "checkEnvelope"
  /\ IF Nullish(data)
     THEN Catch("Cannot read properties of null") /\ UNCHANGED generatedText
     ELSE IF ~Truthy(GetProp(data, "candidates"))
             \/ ~Truthy(GetFirst(GetProp(data, "candidates")))
             \/ ~Truthy(GetProp(GetFirst(GetProp(data, "candidates")), "content"))
     THEN Catch("Invalid response from Gemini API") /\ UNCHANGED generatedText
     ELSE LET parts == GetProp(GetProp(GetFirst(GetProp(data, "candidates")), "content"), "parts") IN
          IF Nullish(parts) \/ Nullish(GetFirst(parts))
          THEN Catch("Cannot read properties of undefined") /\ UNCHANGED generatedText
          ELSE /\ generatedText' = GetProp(GetFirst(parts), "text")
               /\ pc' = "parse"
               /\ UNCHANGED result
  /\ UNCHANGED <<geminiApiKey, method, request, targetCalories, prompt, fetchCalls,
                 response, data, dietPlan, prev>>
  /\ UNCHANGED <<storeVars, pageVars, historyVars>>

\* a parse failure that reaches the outer catch
ParsePlan_rethrow ==
  /\ pc = "parse"
  /\ IF parseError(generatedText) # "none"
     THEN Catch(parseError(generatedText)) /\ UNCHANGED dietPlan
     ELSE /\ dietPlan' = extractDietPlan(generatedText, targetCalories)
          /\ pc' = "respond"
          /\ UNCHANGED result
  /\ UNCHANGED <<geminiApiKey, method, request, targetCalories, prompt, fetchCalls,
                 response, data, generatedText, prev>>
  /\ UNCHANGED <<storeVars, pageVars, historyVars>>

\* lines 130-167
ParsePlan ==
  /\ pc = "parse"
  /\ dietPlan' = extractDietPlan(generatedText, targetCalories)
  /\ pc' = "respond"
  /\ UNCHANGED <<geminiApiKey, method, request, targetCalories, prompt, fetchCalls,
                 response, data, generatedText, result, prev>>
  /\ UNCHANGED <<storeVars, pageVars, historyVars>>

\* lines 169-171
Respond ==
  /\ pc = "respond"
  /\ result' = [status |-> 200, body |-> JSONstringify(dietPlan)]
  /\ pc' = "done"
  /\ UNCHANGED <<geminiApiKey, method, request, targetCalories, prompt, fetchCalls,
                 response, data, generatedText, dietPlan, prev>>
  /\ UNCHANGED <<storeVars, pageVars, historyVars>>

\* the invocation is over; the next one starts with its own bindings
Return ==
  /\ pc = "done"
  /\ prev' = IF method = "POST"
             THEN [request |-> request, targetCalories |-> targetCalories]
             ELSE prev
  /\ pc' = "idle"
  /\ method' = ""
  /\ request' = Undefined
  /\ targetCalories' = Undefined
  /\ prompt' = Undefined
  /\ fetchCalls' = 0
  /\ response' = Undefined
  /\ data' = Undefined
  /\ generatedText' = Undefined
  /\ dietPlan' = Undefined
  /\ result' = Undefined
  /\ UNCHANGED geminiApiKey
  /\ UNCHANGED <<storeVars, pageVars, historyVars>>

Next ==
  \/ Preflight
  \/ Enter
  \/ CheckKey
  \/ ReadBody(Requests)
  \/ ComputeTarget
  \/ Fetch
  \/ FetchReturns(Replies(Bodies))
  \/ CheckOk
  \/ CheckEnvelope
  \/ ParsePlan
  \/ Respond
  \/ Return

Spec == Init /\ [][Next]_vars

NextCalorie ==
  \/ Preflight
  \/ Enter
  \/ CheckKey
  \/ ReadBody(CalorieRequests)
  \/ ComputeTarget
  \/ Fetch
  \/ FetchReturns(Replies(CalorieBodies))
  \/ CheckOk
  \/ CheckEnvelope
  \/ ParsePlan
  \/ Respond
  \/ Return

SpecCalorie == Init /\ [][NextCalorie]_vars

NextDb ==
  \/ Register
  \/ \E u \in UserIds : DeleteUser(u)
  \/ \E gid \in RowIds : DeleteGoal(gid)
  \/ \E u \in UserIds, t \in TableNames : SelectFrom(u, t)
  \/ \E u, o \in UserIds : InsertProfiles(u, o)
  \/ \E u, o \in UserIds, g \in StoreGoals : InsertGoals(u, o, g)
  \/ \E u, o \in UserIds, gid \in RowIds, p \in StorePlans : InsertDietPlans(u, o, gid, p)
  \/ \E u, o \in UserIds, gid \in RowIds : InsertUserHistory(u, o, gid, 79)
  \/ \E u, o \in UserIds, gid \in RowIds : UpdateGoals(u, gid, o, "active")
  \/ \E u, o \in UserIds, pid \in RowIds : UpdateProfiles(u, pid, o, "name")
  \/ \E u \in UserIds : Unpermitted(u, "update", "diet_plans") \/ Unpermitted(u, "delete", "goals")

SpecDb == Init /\ [][NextDb]_vars

NextApp ==
  \/ Register
  \/ \E u \in UserIds, gt \in GoalTypes : Mount(u, gt)
  \/ \E form \in Forms : handleInputChange(form)
  \/ handleSubmit
  \/ \E reached \in BOOLEAN : SaveGoal(reached)
  \/ InvokeGenerate
  \/ \E reached \in BOOLEAN : SaveDietPlan(reached)
  \/ Finally

SpecApp == Init /\ [][NextApp]_vars

NextHistory ==
  \/ Register
  \/ \E u \in UserIds, g \in HistoryGoals : InsertGoals(u, u, g)
  \/ \E u \in UserIds : MountHistory(u)
  \/ \E reached \in BOOLEAN : FetchGoals(reached)
  \/ \E reached \in BOOLEAN : FetchHistory(reached)
  \/ \E i \in 1..MaxRows : setSelectedGoal(i)
  \/ \E w \in WeightInputs : setCurrentWeight(w)
  \/ addWeightEntry
  \/ \E reached \in BOOLEAN : InsertWeightEntry(reached)

SpecHistory == Init /\ [][NextHistory]_vars

(***************************************************************************)
(* The calorie target.                                                     *)
(***************************************************************************)
\* the request of the current invocation has been read
HasRequest == request # Undefined

\* the target of the current invocation has been computed
HasTarget == targetCalories # Undefined

\* k is the integer nearest to num / den (den > 0), a tie going up
NearestInteger(k, num, den) ==
  /\ 2 * den * k - den <= 2 * num
  /\ 2 * num < 2 * den * k + den

GoalInputs(req) ==
  <<req.goalType, req.currentWeight, req.targetWeight, req.age, req.goalDurationWeeks>>

\* C2: (weight_loss, 80, 70, age 30, 10 weeks) gives 1100, age 30 being in
\* the 1600 bucket, and (weight_gain, 60, 70, age 35, 20 weeks) gives 1650.
C2_WorkedExamples ==
  HasTarget =>
    /\ GoalInputs(request) = <<"weight_loss", 80, 70, 30, 10>> => targetCalories = Num(1100)
    /\ GoalInputs(request) = <<"weight_gain", 60, 70, 35, 20>> => targetCalories = Num(1650)

C2_Witness ==
  /\ pc = "done"
  /\ HasTarget
  /\ GoalInputs(request) = <<"weight_gain", 60, 70, 35, 20>>
  /\ prev # Undefined
  /\ prev.targetCalories = Num(1100)
  /\ GoalInputs(prev.request) = <<"weight_loss", 80, 70, 30, 10>>

\* C3: with durationWeeks = 0 the handler surfaces an error: no prompt is
\* built, the provider is not called and no plan is returned.
C3_ZeroWeeksFails ==
  (HasRequest /\ request.goalDurationWeeks = 0) =>
    /\ pc \in {"compute", "done"}
    /\ prompt = Undefined
    /\ fetchCalls = 0
    /\ dietPlan = Undefined
    /\ pc = "done" => result.status >= 400

\* C4: two invocations with the same five inputs (durationWeeks >= 1)
\* compute the same target, whatever the dietPreference, the provider's
\* reply or the invocation before.
C4_Deterministic ==
  (/\ HasTarget
   /\ prev # Undefined
   /\ prev.targetCalories # Undefined
   /\ request.goalDurationWeeks >= 1
   /\ GoalInputs(request) = GoalInputs(prev.request))
  => targetCalories = prev.targetCalories

C4_Witness ==
  /\ HasTarget
  /\ prev # Undefined
  /\ prev.targetCalories # Undefined
  /\ request.goalDurationWeeks >= 1
  /\ GoalInputs(request) = GoalInputs(prev.request)
  /\ request.dietPreference # prev.request.dietPreference
  /\ targetCalories = prev.targetCalories

(***************************************************************************)
(* The provider call and the responses.                                    *)
(***************************************************************************)
\* the body is the error envelope {error, details}
IsErrorEnvelope(body) ==
  /\ body.t = "obj"
  /\ Len(body.m) = 2
  /\ HasMember(body, "error") /\ Member(body, "error").t = "str"
  /\ HasMember(body, "details") /\ Member(body, "details").t = "str"

\* the invocation ended with the error envelope and a failure status
Failed == pc = "done" /\ result.status >= 400 /\ IsErrorEnvelope(result.body)

\* C5: without GEMINI_API_KEY the invocation fails with the configuration
\* error; no provider call is made at any point, and the check comes before
\* the request body is read.
C5_NoKeyNoCall ==
  ~geminiApiKey =>
    /\ fetchCalls = 0
    /\ ~HasRequest
    /\ pc \in {"idle", "checkKey", "done"}
    /\ (pc = "done" /\ method = "POST") =>
         result = errorResponse("GEMINI_API_KEY not found in environment variables")

C5_Witness == ~geminiApiKey /\ method = "POST" /\ Failed /\ fetchCalls = 0

ProviderRefused == response # Undefined /\ ~response.ok

\* C7: when the provider answers with a non-success status the response is
\* the error envelope with a failure status, and no plan (the fallback plan
\* included) is returned.
C7_BadStatusFails ==
  (ProviderRefused /\ pc # "checkOk") =>
    /\ Failed
    /\ dietPlan = Undefined
    /\ result.body # JSONstringify(fallbackPlan(targetCalories))

C7_Witness ==
  /\ ProviderRefused
  /\ Failed
  /\ response.json
  /\ response.v = Envelope(Str(PlanText("1100")))

\* the body has the shape {candidates: [{content: {parts: [{text: string}]}}]}
Recognized(body) ==
  /\ body.t = "obj"
  /\ HasMember(body, "candidates")
  /\ LET candidates == Member(body, "candidates") IN
     /\ candidates.t = "arr"
     /\ Len(candidates.e) > 0
     /\ candidates.e[1].t = "obj"
     /\ HasMember(candidates.e[1], "content")
     /\ LET content == Member(candidates.e[1], "content") IN
        /\ content.t = "obj"
        /\ HasMember(content, "parts")
        /\ LET parts == Member(content, "parts") IN
           /\ parts.t = "arr"
           /\ Len(parts.e) > 0
           /\ parts.e[1].t = "obj"
           /\ HasMember(parts.e[1], "text")
           /\ Member(parts.e[1], "text").t = "str"

\* the provider answered with a success status
ProviderAnswered == response # Undefined /\ response.ok

\* C8: a successful provider response whose body has another shape than the
\* envelope makes the invocation fail with the error envelope, never a plan.
C8_OtherShapeFails ==
  (/\ ProviderAnswered
   /\ ~(response.json /\ Recognized(response.v))
   /\ pc = "done")
  => (Failed /\ dietPlan = Undefined)

\* C9: for every reply with a recognized envelope, whatever string its text
\* is, the invocation ends with a success response carrying the plan; a
\* parse failure is recovered by the fallback plan.
C9_ParseNeverFails ==
  (ProviderAnswered /\ response.json /\ Recognized(response.v) /\ pc = "done") =>
    /\ result.status = 200
    /\ dietPlan # Undefined
    /\ result.body = JSONstringify(dietPlan)
    /\ ~IsErrorEnvelope(result.body)
    /\ parseError(generatedText) # "none" => dietPlan = fallbackPlan(targetCalories)

C9_Witness ==
  /\ pc = "done"
  /\ ProviderAnswered
  /\ response.json
  /\ Recognized(response.v)
  /\ parseError(generatedText) = "SyntaxError"
  /\ result.status = 200
  /\ result.body = JSONstringify(fallbackPlan(targetCalories))

(***************************************************************************)
(* The plan taken from the generated text.                                 *)
(***************************************************************************)
IsStringArray(v) == v.t = "arr" /\ \A i \in 1..Len(v.e) : v.e[i].t = "str"

\* {foods: string[], calories: number, description: string}
IsMealEntry(v) ==
  /\ v.t = "obj"
  /\ HasMember(v, "foods") /\ IsStringArray(Member(v, "foods"))
  /\ HasMember(v, "calories") /\ Member(v, "calories").t = "num"
  /\ HasMember(v, "description") /\ Member(v, "description").t = "str"

\* {name: string, foods: string[], calories: number}
IsSnackEntry(v) ==
  /\ v.t = "obj"
  /\ HasMember(v, "name") /\ Member(v, "name").t = "str"
  /\ HasMember(v, "foods") /\ IsStringArray(Member(v, "foods"))
  /\ HasMember(v, "calories") /\ Member(v, "calories").t = "num"

\* {dailyCalories, breakfast, lunch, dinner, snacks} of the declared shape
IsDietPlan(v) ==
  /\ v.t = "obj"
  /\ HasMember(v, "dailyCalories") /\ Member(v, "dailyCalories").t = "num"
  /\ HasMember(v, "breakfast") /\ IsMealEntry(Member(v, "breakfast"))
  /\ HasMember(v, "lunch") /\ IsMealEntry(Member(v, "lunch"))
  /\ HasMember(v, "dinner") /\ IsMealEntry(Member(v, "dinner"))
  /\ HasMember(v, "snacks")
  /\ Member(v, "snacks").t = "arr"
  /\ \A i \in 1..Len(Member(v, "snacks").e) : IsSnackEntry(Member(v, "snacks").e[i])

\* ts[i..j] is the text of a JSON object of the DietPlan shape
PlanAt(ts, i, j) ==
  /\ i < j
  /\ ts[i] = "{"
  /\ ts[j] = "}"
  /\ JSONparse(SubSeq(ts, i, j)).ok
  /\ IsDietPlan(JSONparse(SubSeq(ts, i, j)).v)

\* the text has been parsed
Parsed == pc \in {"respond", "done"} /\ generatedText.t = "str"

\* C10 as stated: a valid DietPlan object anywhere in the text, whatever
\* precedes or follows it, is the plan the parser returns.
C10_AnyPlacement ==
  Parsed =>
    \A i, j \in 1..Len(generatedText.s) :
      PlanAt(generatedText.s, i, j) => dietPlan = JSONparse(SubSeq(generatedText.s, i, j)).v

\* no "{" comes before position i and no "}" after position j
OutermostSpan(ts, i, j) ==
  /\ \A k \in 1..(i - 1) : ts[k] # "{"
  /\ \A k \in (j + 1)..Len(ts) : ts[k] # "}"

\* C10, amended: a valid DietPlan object that no "{" precedes and no "}"
\* follows is the plan the parser returns, field for field, and the plan
\* the response carries.
C10_OutermostPlanReturned ==
  Parsed =>
    \A i, j \in 1..Len(generatedText.s) :
      (OutermostSpan(generatedText.s, i, j) /\ PlanAt(generatedText.s, i, j)) =>
        /\ dietPlan = JSONparse(SubSeq(generatedText.s, i, j)).v
        /\ pc = "done" => result = [status |-> 200, body |-> dietPlan]

C10_Witness ==
  /\ pc = "done"
  /\ generatedText = Str(<<"}">> \o PlanText("1650") \o <<"{">>)
  /\ dietPlan = JSONparse(PlanText("1650")).v
  /\ Member(dietPlan, "dailyCalories") = Num(1650)
  /\ Member(Member(dietPlan, "snacks").e[1], "calories") = Num(150)
  /\ result.body = dietPlan

(***************************************************************************)
(* The shape of the returned plan and the fallback plan.                   *)
(***************************************************************************)
\* the value JSON.parse gave for the matched span, Undefined without one
Decoded(text) ==
  IF parseError(text) = "none" THEN JSONparse(jsonMatch(text.s).s).v ELSE Undefined

\* the invocation ended with a success status
Succeeded == pc = "done" /\ method = "POST" /\ result.status = 200

\* C11: a text with no brace-delimited span, with a span that is not valid
\* JSON, or with a span that is valid JSON of another shape than DietPlan
\* gives the fallback plan, so every plan returned on success has
\* dailyCalories, breakfast, lunch, dinner and snacks of the declared shape.
C11_OtherShapeFallsBack ==
  /\ (Parsed /\ ~IsDietPlan(Decoded(generatedText))) => dietPlan = fallbackPlan(targetCalories)
  /\ Succeeded => IsDietPlan(result.body)

\* the plan of this invocation is the fallback plan of line 142
FellBack ==
  /\ pc \in {"respond", "done"}
  /\ dietPlan # Undefined
  /\ parseError(generatedText) # "none"

\* c is round(pct% of the target)
Share(c, pct) ==
  IF targetCalories.t = "num"
  THEN c.t = "num" /\ c.d = 1 /\ NearestInteger(c.n, pct * targetCalories.n, 100)
  ELSE c = targetCalories

\* the calories of a meal of the plan
MealCalories(plan, meal) == Member(Member(plan, meal), "calories")

\* the calories of the i-th snack of the plan
SnackCalories(plan, i) == Member(Member(plan, "snacks").e[i], "calories")

\* a meal or snack without its calories
WithoutCalories(entry) == Obj(SelectSeq(entry.m, LAMBDA kv : kv[1] # "calories"))

\* what a plan says besides calories
FixedPart(plan) ==
  <<WithoutCalories(Member(plan, "breakfast")), WithoutCalories(Member(plan, "lunch")),
    WithoutCalories(Member(plan, "dinner")),
    [i \in 1..Len(Member(plan, "snacks").e) |-> WithoutCalories(Member(plan, "snacks").e[i])]>>

CaloriesSum(plan) ==
  JsAdd(JsAdd(JsAdd(MealCalories(plan, "breakfast"), MealCalories(plan, "lunch")),
              MealCalories(plan, "dinner")),
        SnackCalories(plan, 1))

\* a <= b
JsLe(a, b) == a.t # "nan" /\ b.t # "nan" /\ ~JsGt(a, b)

\* C13 as stated: in every fallback plan the calories of the meals and
\* the snack add up to at most dailyCalories.
C13_SumAtMostTarget ==
  FellBack => JsLe(CaloriesSum(dietPlan), Member(dietPlan, "dailyCalories"))

\* C13, amended: in every fallback plan the calories of the meals and the
\* snack add up to at most dailyCalories + 1, each of them being rounded
\* on its own.
C13_SumAtMostTargetPlusOne ==
  FellBack => JsLe(CaloriesSum(dietPlan), JsAdd(Member(dietPlan, "dailyCalories"), Num(1)))

C13_Witness ==
  /\ FellBack
  /\ Member(dietPlan, "dailyCalories") = Num(1650)
  /\ CaloriesSum(dietPlan) = Num(1651)

\* C14: every plan returned has dailyCalories equal to the target computed
\* from the request of the same invocation.
C14_DailyCaloriesIsTarget ==
  Succeeded =>
    /\ HasMember(result.body, "dailyCalories")
    /\ Member(result.body, "dailyCalories") = targetCalories

\* something the invocation cannot recover from happened
FailureCause ==
  \/ ~geminiApiKey
  \/ ~HasRequest
  \/ response = Undefined
  \/ ~response.ok
  \/ ~response.json
  \/ ~Recognized(response.v)

\* C15: an invocation ends either with a success response whose body is a
\* DietPlan or with a failure status and the body {error, details}, never a
\* mix; a missing credential, an unreadable request, a provider failure and
\* a bad envelope all end the second way.
C15_TwoOutcomes ==
  (pc = "done" /\ method = "POST") =>
    /\ (result.status = 200 /\ IsDietPlan(result.body)) # Failed
    /\ FailureCause => Failed

\* a non-negative integer
IsNatural(v) == v.t = "num" /\ v.d = 1 /\ v.n >= 0

\* positive weights and age, at least one week
ValidGoal(req) ==
  /\ req.currentWeight > 0
  /\ req.targetWeight > 0
  /\ req.age > 0
  /\ req.goalDurationWeeks >= 1
  /\ req.goalType \in {"weight_loss", "weight_gain"}

\* C20: for valid GoalParameters the target and the calories of the
\* fallback plan's meals and snack are non-negative integers.
C20_NonNegativeCalories ==
  (HasTarget /\ ValidGoal(request)) =>
    /\ IsNatural(targetCalories)
    /\ FellBack =>
         /\ IsNatural(MealCalories(dietPlan, "breakfast"))
         /\ IsNatural(MealCalories(dietPlan, "lunch"))
         /\ IsNatural(MealCalories(dietPlan, "dinner"))
         /\ IsNatural(SnackCalories(dietPlan, 1))

(***************************************************************************)
(* Row level security, foreign keys and the registration trigger.          *)
(***************************************************************************)
Foreign(table, uid) == {r \in table : r.user_id # uid}

\* C16: a statement run by an authenticated user returns and writes only rows
\* whose user_id is that user's id, and leaves every row owned by another user
\* in every table as it was.
C16_OwnRowsOnly ==
  [][lastOp'.actor \in UserIds =>
       /\ \A r \in lastOp'.rows : r.user_id = lastOp'.actor
       /\ Foreign(profiles', lastOp'.actor) = Foreign(profiles, lastOp'.actor)
       /\ Foreign(goals', lastOp'.actor) = Foreign(goals, lastOp'.actor)
       /\ Foreign(diet_plans', lastOp'.actor) = Foreign(diet_plans, lastOp'.actor)
       /\ Foreign(user_history', lastOp'.actor) = Foreign(user_history, lastOp'.actor)]_vars

\* u1 reads goals while u2 owns one, and gets its own goal only
C16_Witness ==
  /\ lastOp.actor = "u1" /\ lastOp.op = "select" /\ lastOp.table = "goals"
  /\ lastOp.rows # {}
  /\ \E g \in goals : g.user_id = "u2"

\* C17: no diet plan and no history entry references a goal that does not
\* exist; so when a goal is deleted every plan and every history entry with
\* its id is deleted with it.
C17_CascadeDelete ==
  /\ \A p \in diet_plans : \E g \in goals : g.id = p.goal_id
  /\ \A h \in user_history : \E g \in goals : g.id = h.goal_id

\* a goal was deleted and a plan and a history entry went with it
C17_Witness ==
  /\ lastOp.op = "delete" /\ lastOp.table = "goals"
  /\ Cardinality(lastOp.rows) >= 2

\* C18: every registered user has exactly one profile.
C18_OneProfile ==
  \A u \in users : Cardinality({p \in profiles : p.user_id = u}) = 1

\* a registered user tried to insert a second profile of its own
C18_Witness ==
  /\ lastOp.op = "insert" /\ lastOp.table = "profiles"
  /\ lastOp.error = "duplicate key value violates unique constraint"
  /\ Cardinality(users) = 2

(***************************************************************************)
(* The plans GoalSetup writes.                                             *)
(***************************************************************************)
PlansOf(plans, gid) == {p \in plans : p.goal_id = gid}

\* C19: whatever submissions are made, a goal never has more than one diet
\* plan, and a diet plan once written stays in the table as it was written.
C19_OnePlanPerGoal ==
  [][/\ \A g \in goals' : Cardinality(PlansOf(diet_plans', g.id)) <= 1
     /\ \A p \in diet_plans : p \in diet_plans']_vars

\* the same user has submitted twice and both goals have their plan
C19_Witness ==
  /\ step = "idle"
  /\ Cardinality(goals) = 2 /\ Cardinality(diet_plans) = 2
  /\ \A g \in goals : g.user_id = "u1" /\ Cardinality(PlansOf(diet_plans, g.id)) = 1

(***************************************************************************)
(* The span the parser decodes.                                            *)
(***************************************************************************)
Opens(ts) == {i \in 1..Len(ts) : ts[i] = "{"}

Closes(ts) == {j \in 1..Len(ts) : ts[j] = "}"}

FirstOpen(ts) == CHOOSE i \in Opens(ts) : \A k \in Opens(ts) : i <= k

LastClose(ts) == CHOOSE j \in Closes(ts) : \A k \in Closes(ts) : j >= k

\* the text from the first "{" to the last "}", Null when no "}" follows the first "{"
FirstToLast(ts) ==
  IF Opens(ts) = {} \/ Closes(ts) = {} THEN Null
  ELSE IF LastClose(ts) < FirstOpen(ts) THEN Null
  ELSE Str(SubSeq(ts, FirstOpen(ts), LastClose(ts)))

\* the plan the parser gives when the span it decodes is the one from the
\* first "{" to the last "}"
PlanOfFirstToLast(ts, target) ==
  IF FirstToLast(ts) = Null THEN fallbackPlan(target)
  ELSE IF ~JSONparse(FirstToLast(ts).s).ok THEN fallbackPlan(target)
  ELSE JSONparse(FirstToLast(ts).s).v

\* valid JSON starts at the first "{" of the text and ends at position j
ValidJSONUpTo(ts, j) ==
  /\ Opens(ts) # {}
  /\ FirstOpen(ts) < j
  /\ ts[j] = "}"
  /\ JSONparse(SubSeq(ts, FirstOpen(ts), j)).ok

\* C21 as stated: the span decoded is the one from the first "{" to the last
\* "}", and valid JSON followed by commentary that contains a brace, "{" or
\* "}", gives the fallback plan.
C21_StrayBraces ==
  Parsed =>
    /\ jsonMatch(generatedText.s) = FirstToLast(generatedText.s)
    /\ dietPlan = PlanOfFirstToLast(generatedText.s, targetCalories)
    /\ \A j \in 1..Len(generatedText.s) :
         (/\ ValidJSONUpTo(generatedText.s, j)
          /\ \E k \in (j + 1)..Len(generatedText.s) : generatedText.s[k] \in {"{", "}"})
           => dietPlan = fallbackPlan(targetCalories)

\* C21, amended: the span decoded is the one from the first "{" to the last
\* "}", and valid JSON followed by commentary that contains a "}" gives the
\* fallback plan, with status 200.
C21_StrayClosingBrace ==
  Parsed =>
    /\ jsonMatch(generatedText.s) = FirstToLast(generatedText.s)
    /\ dietPlan = PlanOfFirstToLast(generatedText.s, targetCalories)
    /\ \A j \in 1..Len(generatedText.s) :
         (/\ ValidJSONUpTo(generatedText.s, j)
          /\ \E k \in (j + 1)..Len(generatedText.s) : generatedText.s[k] = "}")
           => /\ dietPlan = fallbackPlan(targetCalories)
              /\ pc = "done" => result = [status |-> 200, body |-> JSONstringify(dietPlan)]

\* a plan followed by a stray "}" was answered with the fallback plan
C21_Witness ==
  /\ pc = "done"
  /\ generatedText = Str(PlanText("1100") \o <<"}">>)
  /\ targetCalories = Num(1650)
  /\ result = [status |-> 200, body |-> fallbackPlan(Num(1650))]

(***************************************************************************)
(* What GoalSetup sends and leaves behind.                                 *)
(***************************************************************************)
DietPreferences == {"vegetarian", "non_vegetarian", "vegan"}

\* the columns of a goals row are valid GoalParameters
ValidGoalRow(g) ==
  /\ g.current_weight > 0
  /\ g.target_weight > 0
  /\ g.age > 0
  /\ g.goal_duration_weeks >= 1
  /\ g.goal_type \in {"weight_loss", "weight_gain"}
  /\ g.diet_preference \in DietPreferences

\* C22: every goal row handleSubmit has inserted, and every body it sends or
\* has sent to generate-diet-plan, has positive weights and age, a duration of
\* at least one week, and a goal type and a diet preference of the declared
\* sets.
C22_ValidatedUpstream ==
  /\ \A g \in goals : ValidGoalRow(g.goal)
  /\ step = "invoke" =>
       ValidGoal(invokeBody) /\ invokeBody.dietPreference \in DietPreferences
  /\ invokeResponse # Null =>
       ValidGoal(invokeResponse.body) /\ invokeResponse.body.dietPreference \in DietPreferences

\* C23: when no submission is in flight every goal has a diet plan.
C23_NoGoalWithoutPlan ==
  inFlight = 0 => \A g \in goals : PlansOf(diet_plans, g.id) # {}

\* C24: at most one submission is in flight; no call passes the guards while
\* loading is true, and a call turned away while loading is true changes
\* neither the tables nor the submission in flight.
C24_OneSubmissionInFlight ==
  [][/\ inFlight' <= 1
     /\ loading => inFlight' <= inFlight
     /\ (loading /\ ~turnedAway /\ turnedAway') =>
          UNCHANGED <<storeVars, loading, step, inFlight, goalData, invokeResponse>>]_vars

\* a call was turned away while the generation of the only submission was pending
C24_Witness ==
  /\ turnedAway
  /\ loading
  /\ inFlight = 1
  /\ step = "invoke"
  /\ Cardinality(goals) = 1

(***************************************************************************)
(* The History page.                                                       *)
(***************************************************************************)
\* a number from 0 to 100
Percentage(v) ==
  /\ v.t = "num"
  /\ v.n >= 0
  /\ v.n <= 100 * v.d

\* C25: whatever goal is selected and whatever history is loaded, the
\* progress the page shows is a number from 0 to 100.
C25_ProgressInRange ==
  (History.user # "" /\ ~History.loading) =>
    Percentage(calculateProgress(History.selectedGoal, History.weightHistory))

\* C26: once an entry has been added and the data has been reloaded, the
\* goal selected is still the one the entry was added for (the user not
\* having clicked another goal since).
C26_SelectionKept ==
  (History.addedFor # 0 /\ History.fetch = "idle") =>
    History.selectedGoal.id = History.addedFor

(***************************************************************************)
(* Plans and history entries against the goals they name.                  *)
(***************************************************************************)
\* the row's user is the user of the goal its goal_id names
SameOwnerAsGoal(row) ==
  \A g \in goals : g.id = row.goal_id => g.user_id = row.user_id

\* C27: every diet_plans row and every user_history row belongs to the user
\* who owns the goal the row names.
C27_RowsFollowGoalOwner ==
  \A row \in diet_plans \cup user_history : SameOwnerAsGoal(row)

====
